---- MODULE Spec2Model ----
(***************************************************************************)
(* SDS generator: the line-delimited RPC front door with its session       *)
(* store (src/mcp-server.js), the error classifier (src/lib/errors.js)     *)
(* and the batched module detailer (src/sds.js).                           *)
(***************************************************************************)
EXTENDS Integers, Sequences, FiniteSets, TLC

(* ---------------------------------------------------------------- bounds *)
MaxModules == 2
MaxRequests == 3
NumSessionIds == 2
MaxClock == 1

(* ------------------------------------------------------------ JSON values *)
\* Module names a provider may return and a client may select.
Names == {"auth", "todo"}

Module == [name : Names]

ModuleSeqs == UNION {[1..n -> Module] : n \in 0..MaxModules}

\* A JSON value as the handlers look at it: its type, whether it has a
\* `modules` field and of which shape, the modules themselves, and whether its
\* `techStack` field is renderable ("ok": absent or with a `stack` record;
\* "bad": present without one).
Scalar(t) == [t |-> t, mk |-> "absent", items |-> <<>>, ts |-> "ok"]

Obj(mk, items, ts) == [t |-> "obj", mk |-> mk, items |-> items, ts |-> ts]

Values ==
  {Scalar(t) : t \in {"null", "arr"}}
  \cup {Obj(mk, <<>>, "ok") : mk \in {"absent", "nonarray"}}
  \cup {Obj("array", s, "ok") : s \in ModuleSeqs}
  \cup {Obj("array", <<>>, "bad")}

\* What one callAI + parseJSONFromResponse pair can give a handler once the
\* provider call has settled: callAI's APIError, the parser's ParsingError, or
\* a parsed JSON value.
AIOutcomes ==
  {[res |-> "APIError", v |-> Scalar("null")],
   [res |-> "ParsingError", v |-> Scalar("null")]}
  \cup {[res |-> "json", v |-> v] : v \in Values}

NoOutcome == [res |-> "none", v |-> Scalar("null")]

(* -------------------------------------------------------- request inputs *)
\* Clients number their requests: the n-th request carries id n.
RequestIds == 1..MaxRequests

SessionIds == 1..NumSessionIds

\* session_id as a client sends it: 0 stands for a missing (falsy) one.
GivenSessionIds == 0..NumSessionIds

Descriptions == {"plain", "missing"}

TargetPlatforms == {"auto"}

ComplexityLevels == {"auto"}

AdvancedFlags == {TRUE}

\* selected_modules as a client sends it: an array of names or something else.
Selections == [arr : BOOLEAN, names : SUBSET Names]

ExportFormats == {"markdown", "json"}

StackPlatforms == {"web", "embedded"}

Times == 1..MaxClock

(* ------------------------------------------------------------------ state *)
VARIABLES
  credentials,  \* provider credential variables present in process.env
  sessions,     \* the sessions Map: session id -> session data object
  store,        \* the session data objects, by allocation order
  hist,         \* per session object: modules last written whole, names still allowed
  reqs,         \* the frames of the handlers suspended on a provider call
  received,     \* number of requests read from standard input
  alive,        \* the process is still running
  clock,        \* Date.now()
  last,         \* the latest handler step: its frame, inputs and lines written
  thrown,       \* the error handleError is called with, and how
  stdout,       \* the lines handleError has written to standard output
  selectedModules, \* the detailer's input: module names
  batchStart,   \* generateSpecification's loop variable i
  batchPromises,\* the per-module tasks of the batch in flight
  settleOrder,  \* the slots of the batch in flight, in the order they settled
  specModules,  \* specification.modules of the detailer
  failedModules,\* positions of the names whose generation failed
  detailPc,     \* where generateSpecification stands
  CONFIG,       \* the CONFIG object of src/sds.js: its batchSize
  registry,     \* the provider names in the order of API_CONFIGS
  preferredAPI, \* CONFIG.preferredAPI
  selected,     \* per task type: what getAvailableAPI returned so far
  taskType,     \* callAI's taskType argument
  callRetries,  \* callAI's retries argument
  caller,       \* the function that called callAI
  aiCall,       \* the call of callAI: position, provider, attempts, outcome
  responseText, \* the argument of parseJSONFromResponse
  expectedShape,\* the shape the caller of the parser goes on to use
  parsed,       \* what parseJSONFromResponse returned or threw
  projectDescription, \* the description handed to getModuleCount
  complexityLevel,    \* the complexity level handed to getModuleCount
  moduleCount,  \* what getModuleCount returned, per variant
  heuristicCalls, \* calls of inferModuleCountFromDescription made for it
  analysis,     \* one request naming a platform and a complexity level
  inputStream   \* standard input: the chunks still to come, and what was answered

serverVars == <<credentials, sessions, store, hist, reqs, received, alive, clock, last>>

errorVars == <<thrown, stdout>>

detailVars == <<selectedModules, batchStart, batchPromises, settleOrder, specModules,
                failedModules, detailPc, CONFIG>>

selectVars == <<registry, preferredAPI, selected>>

callVars == <<taskType, callRetries, caller, aiCall>>

parseVars == <<responseText, expectedShape, parsed>>

countVars == <<projectDescription, complexityLevel, moduleCount, heuristicCalls>>

analysisVars == <<analysis>>

stdinVars == <<inputStream>>

vars == <<serverVars, errorVars, detailVars, selectVars, callVars, parseVars, countVars,
          analysisVars, stdinVars>>

\* What the steps of one component leave alone.
notServer == <<errorVars, detailVars, selectVars, callVars, parseVars, countVars,
  analysisVars, stdinVars>>

notError == <<serverVars, detailVars, selectVars, callVars, parseVars, countVars,
  analysisVars, stdinVars>>

notDetail == <<serverVars, errorVars, selectVars, callVars, parseVars, countVars,
  analysisVars, stdinVars>>

notSelect == <<serverVars, errorVars, detailVars, callVars, parseVars, countVars,
  analysisVars, stdinVars>>

notCall == <<serverVars, errorVars, detailVars, selectVars, parseVars, countVars,
  analysisVars, stdinVars>>

notParse == <<serverVars, errorVars, detailVars, selectVars, callVars, countVars,
  analysisVars, stdinVars>>

notCount == <<serverVars, errorVars, detailVars, selectVars, callVars, parseVars,
  analysisVars, stdinVars>>

notAnalysis == <<serverVars, errorVars, detailVars, selectVars, callVars, parseVars,
  countVars, stdinVars>>

notStdin == <<serverVars, errorVars, detailVars, selectVars, callVars, parseVars,
  countVars, analysisVars>>


(* ------------------------------------------------- src/lib/api-client.js *)
\* callAI starts with getAvailableAPI, which throws ConfigurationError when
\* no provider has its credential variable set.
noProviderAvailable(creds) == creds = {}

Providers == {"claude", "openai", "perplexity"}

\* The environments the server is started in.
CredentialSets == {{}, {"claude"}}

(* ----------------------------------------------------- src/lib/errors.js *)
ErrorKinds ==
  {"APIError", "ParsingError", "ConfigurationError", "ValidationError",
   "FileIOError", "NetworkError", "Error"}

InvalidParams == -32602

InternalError == -32603

\* The code table with NetworkError moved to the invalid-params group.
errorCodeNetworkAsInvalid(kind) ==
  IF kind \in {"APIError", "ConfigurationError", "ValidationError", "NetworkError"}
  THEN InvalidParams
  ELSE InternalError

errorCode(kind) ==
  IF kind = "APIError" THEN InvalidParams
  ELSE IF kind = "ParsingError" THEN InternalError
  ELSE IF kind = "ConfigurationError" THEN InvalidParams
  ELSE IF kind = "ValidationError" THEN InvalidParams
  ELSE IF kind = "FileIOError" THEN InternalError
  ELSE IF kind = "NetworkError" THEN InternalError
  ELSE InternalError

\* The lines handleError writes to standard output.
handleError(kind, isMCP, requestId) ==
  IF isMCP
  THEN <<[kind |-> "error", id |-> requestId, code |-> errorCode(kind)]>>
  ELSE <<>>

(* ----------------------------------------------------- src/mcp-server.js *)
ResultLine(id) == [kind |-> "result", id |-> id, code |-> 0]

\* `const request` is declared inside the try block, so the catch block's
\* `request?.id` names no binding: evaluating handleError's arguments raises
\* a ReferenceError before handleError is entered.
requestInCatchScope == FALSE

\* The catch of the stdin handler: the lines it writes for an error.
topLevelCatch(kind, id) ==
  IF requestInCatchScope THEN handleError(kind, TRUE, id) ELSE <<>>

\* The ReferenceError leaves the async listener's promise rejected with no
\* handler; whether the process then exits depends on the runtime's
\* unhandled-rejection mode, so both outcomes are possible.
aliveAfterCatch == IF requestInCatchScope THEN {TRUE} ELSE BOOLEAN

\* generateMarkdownWithLanguage returns (TRUE) or raises a TypeError (FALSE):
\* it reads specification.modules.reduce and techStack.stack.language.
renders(spec) == spec.t = "obj" /\ spec.mk = "array" /\ spec.ts = "ok"

\* Variant: the acceptance test without its Array.isArray check.
isValidSpecificationNoArrayCheck(v) ==
  ~(v.t = "null" \/ v.mk = "absent")

\* The refine handler's acceptance test of the parsed response.
isValidSpecification(v) ==
  ~(v.t = "null" \/ v.mk = "absent" \/ v.mk # "array")

RECURSIVE firstMatches(_, _, _)
firstMatches(items, names, seen) ==
  IF items = <<>> THEN <<>>
  ELSE IF Head(items).name \in names /\ Head(items).name \notin seen
       THEN <<Head(items)>> \o firstMatches(Tail(items), names, seen \cup {Head(items).name})
       ELSE firstMatches(Tail(items), names, seen)

\* Variant: a filter that keeps the first module of each selected name only.
filterModulesFirstMatch(items, names) == firstMatches(items, names, {})

\* Variant: the selected modules, last one first.
filterModulesReversed(items, names) ==
  LET kept == SelectSeq(items, LAMBDA m : m.name \in names)
  IN [i \in 1..Len(kept) |-> kept[Len(kept) + 1 - i]]

\* modules.filter(module => selected_modules.includes(module.name))
filterModules(items, names) ==
  SelectSeq(items, LAMBDA m : m.name \in names)

\* The object literal {...specification, modules: filtered}: the new
\* specification (out) and the specification it was given, as it is after
\* the call (arg).
buildFilteredSpec(spec, names) ==
  [arg |-> spec, out |-> [spec EXCEPT !.items = filterModules(spec.items, names)]]

\* Variant: a select that filters the modules last written whole instead of
\* the modules the previous select left.
selectSourceOriginal(oid) ==
  [store[oid].specification EXCEPT !.items = hist[oid].base]

\* The session whose specification a select call filters.
selectSource(oid) == store[oid].specification

\* Variant: the selection test without its length check.
validSelectionArrayOnly(sel) == sel.arr

validSelection(sel) == sel.arr /\ sel.names # {}

techStackOptions == {"mobile", "web", "backend"}

Frame(n, id, tool) ==
  [n |-> n, id |-> id, tool |-> tool, status |-> "running", error |-> "none",
   lines |-> <<>>, sid |-> 0, oid |-> 0, platform |-> "none",
   complexity |-> "none", adv |-> FALSE, currentSpec |-> Scalar("null")]

NoSelection == [arr |-> FALSE, names |-> {}]

NoFrame == Frame(0, 0, "none")

Step(op, f, sel, ai, arg) == [op |-> op, frame |-> f, sel |-> sel, ai |-> ai, arg |-> arg]

\* A step of the handler with frame f that is about no selection, provider
\* outcome or filtered specification.
Plain(op, f) == Step(op, f, NoSelection, NoOutcome, Scalar("null"))

Others(f) == {g \in reqs : g.n # f.n}

\* The handler with frame f returns after writing its result line.
Succeed(op, f, sel, ai, arg) ==
  /\ reqs' = Others(f)
  /\ last' = Step(op, [f EXCEPT !.status = "done", !.lines = <<ResultLine(f.id)>>],
                  sel, ai, arg)
  /\ alive' = alive

\* The handler with frame f returns without writing anything.
Ignore(op, f) ==
  /\ reqs' = Others(f)
  /\ last' = Plain(op, [f EXCEPT !.status = "done"])
  /\ alive' = alive

\* The handler with frame f throws: the top-level catch runs.
Throw(op, f, kind, sel, ai, arg) ==
  /\ reqs' = Others(f)
  /\ last' = Step(op, [f EXCEPT !.status = "failed", !.error = kind,
                                !.lines = topLevelCatch(kind, f.id)],
                  sel, ai, arg)
  /\ alive' \in aliveAfterCatch

\* The handler with frame f suspends on a provider call.
Suspend(op, f, ai) ==
  /\ reqs' = Others(f) \cup {f}
  /\ last' = Step(op, f, NoSelection, ai, Scalar("null"))
  /\ alive' = alive

CanReceive(id) == alive /\ received < MaxRequests /\ id = received + 1

NewIndex == received + 1

hasSession(sid) == sid # 0 /\ sid \in DOMAIN sessions

\* No error has been handed to handleError.
NoThrown == [kind |-> "none", isMCP |-> FALSE, requestId |-> 0, handled |-> TRUE]

errorIdle == thrown = NoThrown /\ stdout = <<>>

\* generateSpecification has not been called.
\* src/sds.js is not loaded.
NoConfig == [batchSize |-> 0]

detailIdle ==
  /\ CONFIG = NoConfig
  /\ selectedModules = <<>>
  /\ batchStart = 0
  /\ batchPromises = <<>>
  /\ settleOrder = <<>>
  /\ specModules = <<>>
  /\ failedModules = {}
  /\ detailPc = "idle"

\* The provider names in the order they are listed in API_CONFIGS.
API_CONFIGS == <<"claude", "openai", "perplexity">>

TaskTypes == {"module-generation", "specification", "general", "other"}

NoSelectionYet == [api |-> "none", calls |-> 0]

\* getAvailableAPI has not been called.
selectIdle ==
  /\ registry = API_CONFIGS
  /\ preferredAPI = "claude"
  /\ selected = [t \in TaskTypes |-> NoSelectionYet]

NoError == [kind |-> "none", apiName |-> "none", cause |-> "none"]

NoCall ==
  [pc |-> "idle", api |-> "none", attempt |-> 0, calls |-> <<>>, pauses |-> 0,
   error |-> NoError, parse |-> "none"]

\* callAI has not been called.
callIdle ==
  /\ taskType = "general"
  /\ callRetries = 1
  /\ caller = "none"
  /\ aiCall = NoCall

NotParsed == [kind |-> "none", error |-> "none", strategy |-> 0, value |-> <<>>]

\* parseJSONFromResponse has not been called.
parseIdle ==
  /\ responseText = [isString |-> TRUE, text |-> <<>>]
  /\ expectedShape = "object"
  /\ parsed = NotParsed

EmptyDescription ==
  [high |-> 0, medium |-> 0, low |-> 0, words |-> 1, mobile |-> FALSE,
   web |-> FALSE, backend |-> FALSE, distributed |-> FALSE]

NotCounted == [variant |-> "none", count |-> 0]

\* getModuleCount has not been called.
countIdle ==
  /\ projectDescription = EmptyDescription
  /\ complexityLevel = "auto"
  /\ moduleCount = NotCounted
  /\ heuristicCalls = 0

NoAnalysis ==
  [tool |-> "none", target_platform |-> "auto", complexity_level |-> "auto",
   word |-> "plain", pc |-> "idle", detectedPlatform |-> "none", stack |-> "none",
   moduleCount |-> 0, providerCalls |-> 0, error |-> "none"]

analysisIdle == analysis = NoAnalysis

NoInput == [chunks |-> <<>>, lines |-> 0, requests |-> 0, out |-> <<>>, alive |-> TRUE]

\* Nothing has been written to the server's standard input.
stdinIdle == inputStream = NoInput

\* The server after startMCPServer: no session, nothing read.
serverStart ==
  /\ sessions = <<>>
  /\ store = <<>>
  /\ hist = <<>>
  /\ reqs = {}
  /\ received = 0
  /\ alive = TRUE
  /\ clock = 1
  /\ last = Plain("init", NoFrame)

Init ==
  /\ credentials \in CredentialSets
  /\ serverStart
  /\ errorIdle
  /\ detailIdle
  /\ selectIdle
  /\ callIdle
  /\ parseIdle
  /\ countIdle
  /\ analysisIdle
  /\ stdinIdle

Received == received' = received + 1

\* JSON.parse(data.toString()) throws on a chunk that is not one JSON text.
stdinMalformed ==
  /\ CanReceive(received + 1)
  /\ Received
  /\ Throw("malformed", Frame(NewIndex, 0, "none"), "SyntaxError",
           NoSelection, NoOutcome, Scalar("null"))
  /\ UNCHANGED <<credentials, sessions, store, hist, clock>>
  /\ UNCHANGED notServer

stdinInitialize(id) ==
  /\ CanReceive(id)
  /\ Received
  /\ Succeed("initialize", Frame(NewIndex, id, "initialize"),
             NoSelection, NoOutcome, Scalar("null"))
  /\ UNCHANGED <<credentials, sessions, store, hist, clock>>
  /\ UNCHANGED notServer

stdinToolsList(id) ==
  /\ CanReceive(id)
  /\ Received
  /\ Succeed("tools/list", Frame(NewIndex, id, "tools/list"),
             NoSelection, NoOutcome, Scalar("null"))
  /\ UNCHANGED <<credentials, sessions, store, hist, clock>>
  /\ UNCHANGED notServer

\* A method other than initialize, tools/list and tools/call: no branch
\* of the dispatch is taken.
stdinOtherMethod(id) ==
  /\ CanReceive(id)
  /\ Received
  /\ Ignore("other", Frame(NewIndex, id, "other"))
  /\ UNCHANGED <<credentials, sessions, store, hist, clock>>
  /\ UNCHANGED notServer

\* tools/call: request.params.name raises a TypeError without params; a
\* name outside the five tools takes no branch.
stdinUnknownTool(id, hasParams) ==
  /\ CanReceive(id)
  /\ Received
  /\ IF hasParams
     THEN Ignore("unknown", Frame(NewIndex, id, "unknown"))
     ELSE Throw("unknown", Frame(NewIndex, id, "unknown"), "TypeError",
                NoSelection, NoOutcome, Scalar("null"))
  /\ UNCHANGED <<credentials, sessions, store, hist, clock>>
  /\ UNCHANGED notServer

detectedPlatform(target_platform, desc) ==
  IF target_platform = "auto"
  THEN (IF desc = "mobile" THEN "mobile" ELSE "web")
  ELSE target_platform

\* handleAnalyzeProjectRequest up to its first provider call (generateModuleList).
handleAnalyzeProjectRequest(id, hasArgs, desc, target_platform, complexity_level, adv) ==
  /\ CanReceive(id)
  /\ Received
  /\ LET f == Frame(NewIndex, id, "analyze_project_request")
     IN IF ~hasArgs \/ (target_platform = "auto" /\ desc = "missing")
        THEN Throw("analyze", f, "TypeError", NoSelection, NoOutcome, Scalar("null"))
        ELSE IF noProviderAvailable(credentials)
        THEN Throw("analyze", f, "ConfigurationError", NoSelection, NoOutcome, Scalar("null"))
        ELSE Suspend("analyze",
                     [f EXCEPT !.status = "modlist",
                               !.platform = detectedPlatform(target_platform, desc),
                               !.complexity = complexity_level,
                               !.adv = adv],
                     NoOutcome)
  /\ UNCHANGED <<credentials, sessions, store, hist, clock>>
  /\ UNCHANGED notServer

\* generateModuleList's provider call settles; moduleList.slice exists on
\* arrays (and strings) only; then generateSpecification calls the provider.
analyzeModuleListSettled(f, ai) ==
  /\ alive
  /\ f \in reqs
  /\ f.status = "modlist"
  /\ IF ai.res # "json"
     THEN Throw("analyze_modlist", f, ai.res, NoSelection, NoOutcome, Scalar("null"))
     ELSE IF ai.v.t # "arr"
     THEN Throw("analyze_modlist", f, "TypeError", NoSelection, ai, Scalar("null"))
     ELSE Suspend("analyze_modlist", [f EXCEPT !.status = "spec"], NoOutcome)
  /\ UNCHANGED <<credentials, sessions, store, hist, clock, received>>
  /\ UNCHANGED notServer

SessionData(spec, f, now) ==
  [specification |-> spec, platform |-> f.platform, complexity |-> f.complexity,
   advanced_features |-> f.adv, created_at |-> now, last_modified |-> 0]

History(items) == [base |-> items, allowed |-> Names]

\* generateSpecification's provider call settles: the parsed value is stored
\* under a new session id, then rendered.
analyzeSpecificationSettled(f, ai, sid, now) ==
  /\ alive
  /\ f \in reqs
  /\ f.status = "spec"
  /\ now >= clock
  /\ IF ai.res # "json"
     THEN /\ Throw("analyze_spec", f, ai.res, NoSelection, NoOutcome, Scalar("null"))
          /\ UNCHANGED <<sessions, store, hist, clock>>
     ELSE LET g == [f EXCEPT !.sid = sid, !.oid = Len(store) + 1]
          IN /\ store' = Append(store, SessionData(ai.v, f, now))
             /\ hist' = Append(hist, History(ai.v.items))
             /\ sessions' = (sid :> (Len(store) + 1)) @@ sessions
             /\ clock' = now
             /\ IF renders(ai.v)
                THEN Succeed("analyze_spec", g, NoSelection, NoOutcome, Scalar("null"))
                ELSE Throw("analyze_spec", g, "TypeError", NoSelection, NoOutcome, Scalar("null"))
  /\ UNCHANGED <<credentials, received>>
  /\ UNCHANGED notServer

\* handleRefineSpecification up to its provider call.  A ConfigurationError
\* of callAI is not one of the kinds the handler re-throws as-is: it leaves
\* wrapped in an APIError.
handleRefineSpecification(id, hasArgs, sid) ==
  /\ CanReceive(id)
  /\ Received
  /\ LET f == [Frame(NewIndex, id, "refine_specification") EXCEPT !.sid = sid]
     IN IF ~hasArgs
        THEN Throw("refine", f, "TypeError", NoSelection, NoOutcome, Scalar("null"))
        ELSE IF ~hasSession(sid)
        THEN Throw("refine", f, "ValidationError", NoSelection, NoOutcome, Scalar("null"))
        ELSE IF store[sessions[sid]].specification.mk # "array"
        THEN Throw("refine", f, "TypeError", NoSelection, NoOutcome, Scalar("null"))
        ELSE IF noProviderAvailable(credentials)
        THEN Throw("refine", f, "APIError", NoSelection, NoOutcome, Scalar("null"))
        ELSE Suspend("refine",
                     [f EXCEPT !.status = "refine", !.oid = sessions[sid],
                               !.currentSpec = store[sessions[sid]].specification],
                     NoOutcome)
  /\ UNCHANGED <<credentials, sessions, store, hist, clock>>
  /\ UNCHANGED notServer

\* The provider call of a refine settles: parse, validate, update the
\* session data object the handler holds, put it back under the id, render.
refineSettled(f, ai, now) ==
  /\ alive
  /\ f \in reqs
  /\ f.status = "refine"
  /\ now >= clock
  /\ IF ai.res # "json"
     THEN /\ Throw("refine_settled", f, ai.res, NoSelection, ai, Scalar("null"))
          /\ UNCHANGED <<sessions, store, hist, clock>>
     ELSE IF ~isValidSpecification(ai.v)
     THEN /\ Throw("refine_settled", f, "ValidationError", NoSelection, ai, Scalar("null"))
          /\ UNCHANGED <<sessions, store, hist, clock>>
     ELSE /\ store' = [store EXCEPT ![f.oid].specification = ai.v,
                                    ![f.oid].last_modified = now]
          /\ hist' = [hist EXCEPT ![f.oid] = History(ai.v.items)]
          /\ sessions' = (f.sid :> f.oid) @@ sessions
          /\ clock' = now
          /\ IF renders(ai.v)
             THEN Succeed("refine_settled", f, NoSelection, ai, Scalar("null"))
             ELSE Throw("refine_settled", f, "APIError", NoSelection, ai, Scalar("null"))
  /\ UNCHANGED <<credentials, received>>
  /\ UNCHANGED notServer

handleExportSpecification(id, hasArgs, sid, export_format) ==
  /\ CanReceive(id)
  /\ Received
  /\ LET f == [Frame(NewIndex, id, "export_specification") EXCEPT !.sid = sid]
     IN IF ~hasArgs
        THEN Throw("export", f, "TypeError", NoSelection, NoOutcome, Scalar("null"))
        ELSE IF ~hasSession(sid)
        THEN Throw("export", f, "Error", NoSelection, NoOutcome, Scalar("null"))
        ELSE IF export_format # "json" /\ ~renders(store[sessions[sid]].specification)
        THEN Throw("export", f, "TypeError", NoSelection, NoOutcome, Scalar("null"))
        ELSE Succeed("export", f, NoSelection, NoOutcome, Scalar("null"))
  /\ UNCHANGED <<credentials, sessions, store, hist, clock>>
  /\ UNCHANGED notServer

handleSelectTechStack(id, hasArgs, platform) ==
  /\ CanReceive(id)
  /\ Received
  /\ LET f == Frame(NewIndex, id, "select_tech_stack")
     IN IF ~hasArgs
        THEN Throw("select_tech_stack", f, "TypeError", NoSelection, NoOutcome, Scalar("null"))
        ELSE IF platform \notin techStackOptions
        THEN Throw("select_tech_stack", f, "ValidationError", NoSelection, NoOutcome,
                   Scalar("null"))
        ELSE Succeed("select_tech_stack", f, NoSelection, NoOutcome, Scalar("null"))
  /\ UNCHANGED <<credentials, sessions, store, hist, clock>>
  /\ UNCHANGED notServer

\* handleSelectModules has no suspension point: it runs as one step.
handleSelectModules(id, hasArgs, sid, sel, now) ==
  /\ CanReceive(id)
  /\ Received
  /\ now >= clock
  /\ LET f == [Frame(NewIndex, id, "select_modules") EXCEPT !.sid = sid]
     IN IF ~hasArgs \/ ~hasSession(sid) \/ ~validSelection(sel)
        THEN /\ IF ~hasArgs
                THEN Throw("select_noargs", f, "TypeError", NoSelection, NoOutcome,
                           Scalar("null"))
                ELSE Throw("select", f, "ValidationError", sel, NoOutcome, Scalar("null"))
             /\ UNCHANGED <<sessions, store, hist, clock>>
        ELSE LET oid == sessions[sid]
                 src == selectSource(oid)
                 g == [f EXCEPT !.oid = oid]
             IN IF src.mk # "array"
                THEN /\ Throw("select", g, "TypeError", sel, NoOutcome, Scalar("null"))
                     /\ UNCHANGED <<sessions, store, hist, clock>>
                ELSE LET r == buildFilteredSpec(src, sel.names)
                     IN /\ store' = [store EXCEPT ![oid].specification = r.out,
                                                  ![oid].last_modified = now]
                        /\ hist' = [hist EXCEPT ![oid].allowed = @ \cap sel.names]
                        /\ sessions' = (sid :> oid) @@ sessions
                        /\ clock' = now
                        /\ IF renders(r.out)
                           THEN Succeed("select_done", g, sel, NoOutcome, r.arg)
                           ELSE Throw("select_done", g, "TypeError", sel, NoOutcome, r.arg)
  /\ UNCHANGED credentials
  /\ UNCHANGED notServer

Next ==
  \/ stdinMalformed
  \/ \E id \in RequestIds : stdinInitialize(id)
  \/ \E id \in RequestIds : stdinToolsList(id)
  \/ \E id \in RequestIds : stdinOtherMethod(id)
  \/ \E id \in RequestIds, hasParams \in BOOLEAN : stdinUnknownTool(id, hasParams)
  \/ \E id \in RequestIds, hasArgs \in BOOLEAN, desc \in Descriptions,
        tp \in TargetPlatforms, cl \in ComplexityLevels, adv \in AdvancedFlags :
       handleAnalyzeProjectRequest(id, hasArgs, desc, tp, cl, adv)
  \/ \E f \in reqs, ai \in AIOutcomes : analyzeModuleListSettled(f, ai)
  \/ \E f \in reqs, ai \in AIOutcomes, sid \in SessionIds, now \in Times :
       analyzeSpecificationSettled(f, ai, sid, now)
  \/ \E id \in RequestIds, hasArgs \in BOOLEAN, sid \in GivenSessionIds :
       handleRefineSpecification(id, hasArgs, sid)
  \/ \E f \in reqs, ai \in AIOutcomes, now \in Times : refineSettled(f, ai, now)
  \/ \E id \in RequestIds, hasArgs \in BOOLEAN, sid \in GivenSessionIds,
        fmt \in ExportFormats : handleExportSpecification(id, hasArgs, sid, fmt)
  \/ \E id \in RequestIds, hasArgs \in BOOLEAN, p \in StackPlatforms :
       handleSelectTechStack(id, hasArgs, p)
  \/ \E id \in RequestIds, hasArgs \in BOOLEAN, sid \in GivenSessionIds,
        sel \in Selections, now \in Times : handleSelectModules(id, hasArgs, sid, sel, now)

Spec == Init /\ [][Next]_vars


(* ------------------------------------------------------------- claims *)
\* The modules of s whose name is in names, in the order of s.
RECURSIVE Pick(_, _)
Pick(s, names) ==
  IF s = <<>> THEN <<>>
  ELSE IF Head(s).name \in names
       THEN <<Head(s)>> \o Pick(Tail(s), names)
       ELSE Pick(Tail(s), names)

Finished(f) == f.status \in {"done", "failed"}

\* C1: every request the stdin handler has finished with (whatever its
\* method or tool name, and also when its handler threw) has produced exactly
\* one output line, a result or an error envelope, carrying the request's id.
C1_OneLineOutPerRequest ==
  (last.op # "malformed" /\ Finished(last.frame))
    => /\ Len(last.frame.lines) = 1
       /\ last.frame.lines[1].kind \in {"result", "error"}
       /\ last.frame.lines[1].id = last.frame.id

\* C2: every exception raised while a request is dispatched is turned into
\* one error envelope, and the server is still running afterwards.
C2_ExceptionsBecomeErrorEnvelopes ==
  last.frame.status = "failed"
    => /\ Len(last.frame.lines) = 1
       /\ last.frame.lines[1].kind = "error"
       /\ alive

\* C4: with no provider credential set, analyze_project_request ends with
\* an error envelope carrying the configuration-error code, and creates no
\* session.
C4_NoCredentialGivesConfigurationEnvelope ==
  (credentials = {} /\ last.op = "analyze" /\ last.frame.error = "ConfigurationError")
    => /\ last.frame.lines =
            <<[kind |-> "error", id |-> last.frame.id, code |-> InvalidParams]>>
       /\ DOMAIN sessions = {}

hasArrayModules(v) == v.t = "obj" /\ v.mk = "array"

\* C5: a refine whose parsed provider response is not an object with an
\* array-valued modules field fails with a ValidationError and leaves every
\* stored session, the addressed one included, as it was.
C5_RefineRejectionKeepsSpecification ==
  [][(last'.op = "refine_settled" /\ last'.ai.res = "json"
        /\ ~hasArrayModules(last'.ai.v))
       => (/\ last'.frame.error = "ValidationError"
           /\ store' = store
           /\ sessions' = sessions)]_vars

C5_Witness ==
  /\ last.op = "refine_settled"
  /\ last.ai.res = "json"
  /\ last.ai.v.t = "obj"
  /\ last.ai.v.mk = "nonarray"
  /\ last.frame.error = "ValidationError"
  /\ store[last.frame.oid].specification.items # <<>>

\* C6: a select_modules call that filters leaves the specification object it
\* was given as it was, and stores a specification that differs from it in
\* `modules` only: the modules whose name is selected, in their original
\* order, as many as the original has of them.
C6_SelectIsPureFilter ==
  [][last'.op = "select_done"
       => LET old == store[last'.frame.oid].specification
              new == store'[last'.frame.oid].specification
              names == last'.sel.names
          IN /\ last'.arg = old
             /\ new = [old EXCEPT !.items = new.items]
             /\ new.items = Pick(old.items, names)
             /\ Len(new.items) =
                  Cardinality({i \in DOMAIN old.items : old.items[i].name \in names})]_vars

C6_Witness ==
  /\ last.op = "select_done"
  /\ Len(last.arg.items) = 2
  /\ last.arg.items[1] = last.arg.items[2]
  /\ store[last.frame.oid].specification.items = last.arg.items

\* C7: the modules stored for a session are those of the specification last
\* written whole (by analyze or refine) whose name is in every name list
\* selected since: each select filters what the previous one left.
C7_SelectsCompose ==
  \A oid \in DOMAIN store :
    store[oid].specification.mk = "array"
      => store[oid].specification.items = Pick(hist[oid].base, hist[oid].allowed)

C7_Witness ==
  /\ last.op = "select_done"
  /\ hist[last.frame.oid].base = <<[name |-> "auth"], [name |-> "todo"]>>
  /\ hist[last.frame.oid].allowed = {}
  /\ store[last.frame.oid].specification.items = <<>>

\* C8: a select_modules call whose selected_modules is empty or not an array
\* fails with a ValidationError and leaves every session as it was,
\* specification and last_modified included.
C8_InvalidSelectionRejected ==
  [][(last'.op \in {"select", "select_done"}
        /\ (~last'.sel.arr \/ last'.sel.names = {}))
       => (/\ last'.frame.error = "ValidationError"
           /\ store' = store
           /\ sessions' = sessions)]_vars

C8_Witness ==
  /\ last.op = "select"
  /\ hasSession(last.frame.sid)
  /\ last.sel.arr
  /\ last.sel.names = {}
  /\ last.frame.error = "ValidationError"
  /\ store[sessions[last.frame.sid]].specification.items # <<>>


(* ------------------------------------ src/lib/errors.js: handleError *)
MaxErrors == 2

\* request?.id || null: 0 stands for null.
EnvelopeIds == 0..MaxRequests

\* An error reaches a call of handleError(error, isMCP, requestId).
raise(kind, isMCP, requestId) ==
  /\ thrown.handled
  /\ Len(stdout) < MaxErrors
  /\ thrown' = [kind |-> kind, isMCP |-> isMCP, requestId |-> requestId,
                handled |-> FALSE]
  /\ UNCHANGED <<stdout, notError>>

\* handleError runs: in MCP mode it writes one error envelope, otherwise it
\* reports on the error stream only.
handleErrorCall ==
  /\ ~thrown.handled
  /\ stdout' = stdout \o handleError(thrown.kind, thrown.isMCP, thrown.requestId)
  /\ thrown' = [thrown EXCEPT !.handled = TRUE]
  /\ UNCHANGED notError

InitErr ==
  /\ credentials = {}
  /\ serverStart
  /\ errorIdle
  /\ detailIdle
  /\ selectIdle
  /\ callIdle
  /\ parseIdle
  /\ countIdle
  /\ analysisIdle
  /\ stdinIdle

NextErr ==
  \/ \E kind \in ErrorKinds, isMCP \in BOOLEAN, id \in EnvelopeIds : raise(kind, isMCP, id)
  \/ handleErrorCall

SpecErr == InitErr /\ [][NextErr]_vars

\* The envelope handleError has just written for the error in `thrown`.
LastEnvelope == stdout[Len(stdout)]

JustHandledMCP ==
  /\ thrown.kind # "none"
  /\ thrown.handled
  /\ thrown.isMCP

\* C3 as stated: exactly the configuration and validation kinds get the
\* invalid-request code; every other kind, APIError included, gets the
\* internal-error code.
C3_OnlyConfigAndValidationInvalid ==
  JustHandledMCP =>
    LastEnvelope.code =
      IF thrown.kind \in {"ConfigurationError", "ValidationError"}
      THEN InvalidParams ELSE InternalError

\* C3 amended: handleError gives the invalid-request code to exactly
\* ConfigurationError, ValidationError and APIError, and the internal-error
\* code to ParsingError, NetworkError, FileIOError and untyped errors; the
\* envelope carries the request id it was given.
C3_CodeByKind ==
  JustHandledMCP =>
    /\ stdout # <<>>
    /\ LastEnvelope.kind = "error"
    /\ LastEnvelope.id = thrown.requestId
    /\ (thrown.kind \in {"ConfigurationError", "ValidationError", "APIError"}
          => LastEnvelope.code = -32602)
    /\ (thrown.kind \in {"ParsingError", "NetworkError", "FileIOError", "Error"}
          => LastEnvelope.code = -32603)

\* handleError has answered an APIError in MCP mode with the invalid-request code.
C3_Witness ==
  /\ JustHandledMCP
  /\ thrown.kind = "APIError"
  /\ LastEnvelope = [kind |-> "error", id |-> thrown.requestId, code |-> -32602]


(* ------------------------------- src/sds.js: generateSpecification *)
MaxNames == 4

\* CONFIG.batchSize when BATCH_SIZE is not set.
batchSize == 3

\* callAI(prompt, retries = 1)
defaultRetries == 1

NameSeqs == UNION {[1..n -> Names] : n \in 0..MaxNames}

\* A module object as it ends up in specification.modules; `for` is the
\* position of the name the object was produced for.
NoResult == [name |-> "none", description |-> "undefined", functions |-> 0, for |-> 0]

\* The objects a provider's answer parses to: any name, with or without functions.
ProviderModules == [name : Names, description : {"ai"}, functions : 0..1]

moduleData(d, pos) ==
  [name |-> d.name, description |-> d.description, functions |-> d.functions,
   for |-> pos]

\* { name: moduleName, description: `${moduleName} module functionality`, functions: [] }
minimalModule(moduleName, pos) ==
  [name |-> moduleName, description |-> "placeholder", functions |-> 0, for |-> pos]

Task(st, attempt, result) == [st |-> st, attempt |-> attempt, result |-> result]

\* The per-module failure of an older revision: the task yields null.
moduleFailureNull(moduleName, pos) == Task("settled", 0, NoResult)

\* Variant: no inner catch, the task rejects and Promise.all rejects with it.
moduleFailureRejects(moduleName, pos) == Task("rejected", 0, NoResult)

\* The inner catch: the task resolves with the minimal module structure.
moduleFailure(moduleName, pos) == Task("settled", 0, minimalModule(moduleName, pos))

\* The results in the order the tasks settled.
batchResultsBySettling(tasks, order) ==
  [k \in 1..Len(order) |-> tasks[order[k]].result]

\* await Promise.all(batchPromises): the results by slot.
batchResults(tasks, order) == [j \in 1..Len(tasks) |-> tasks[j].result]

\* batchResults.forEach(result => { if (result) push })
pushResults(results) == SelectSeq(results, LAMBDA r : r # NoResult)

\* Variant: the batch is over as soon as one of its tasks has settled.
promiseAnySettled(tasks) ==
  \E j \in 1..Len(tasks) : tasks[j].st \in {"settled", "rejected"}

\* await Promise.all(...) resumes when every task of the batch has settled.
promiseAllSettled(tasks) ==
  \A j \in 1..Len(tasks) : tasks[j].st \in {"settled", "rejected"}

Min(a, b) == IF a < b THEN a ELSE b

\* Array.prototype.slice's reading of an index: a negative one counts from
\* the end, and both ends are clamped to the array.
sliceIndex(k, len) ==
  IF k < 0 THEN (IF len + k < 0 THEN 0 ELSE len + k) ELSE Min(k, len)

\* selectedModules.slice(i, i + batchSize).length
batchLength ==
  LET from == sliceIndex(batchStart, Len(selectedModules))
      to == sliceIndex(batchStart + CONFIG.batchSize, Len(selectedModules))
  IN IF to < from THEN 0 ELSE to - from

\* How far below zero the loop variable is followed.
MaxEmptyBatches == 2

\* i += batchSize.  Below zero every value of i gives the same iteration (an
\* empty slice, and both tests i < length and i + batchSize < length true),
\* so the values under -MaxEmptyBatches are held as -MaxEmptyBatches.
advance(i, size) ==
  IF i + size < -MaxEmptyBatches THEN -MaxEmptyBatches ELSE i + size

inFlight(j) ==
  /\ detailPc = "await"
  /\ j \in 1..Len(batchPromises)

\* One iteration of the for loop starts: batch.map(async ...) starts every
\* task of the batch.  Without a credential callAI throws in getAvailableAPI
\* and every task takes its catch at once.
startBatch ==
  /\ detailPc = "loop"
  /\ batchStart < Len(selectedModules)
  /\ IF noProviderAvailable(credentials)
     THEN /\ batchPromises' =
               [j \in 1..batchLength |->
                  moduleFailure(selectedModules[batchStart + j], batchStart + j)]
          /\ settleOrder' = [j \in 1..batchLength |-> j]
          /\ failedModules' =
               failedModules \cup {batchStart + j : j \in 1..batchLength}
     ELSE /\ batchPromises' = [j \in 1..batchLength |-> Task("calling", 0, NoResult)]
          /\ settleOrder' = <<>>
          /\ failedModules' = failedModules
  /\ detailPc' = "await"
  /\ UNCHANGED <<selectedModules, batchStart, specModules, CONFIG, notDetail>>

\* The provider answers slot j and the answer parses to the object d.
moduleDetailed(j, d) ==
  /\ inFlight(j)
  /\ batchPromises[j].st = "calling"
  /\ batchPromises' =
       [batchPromises EXCEPT ![j] = Task("settled", @.attempt, moduleData(d, batchStart + j))]
  /\ settleOrder' = Append(settleOrder, j)
  /\ UNCHANGED <<selectedModules, batchStart, specModules, failedModules, detailPc,
                 CONFIG, notDetail>>

\* The provider answers slot j with text parseJSONFromResponse throws on.
moduleUnparsable(j) ==
  /\ inFlight(j)
  /\ batchPromises[j].st = "calling"
  /\ batchPromises' =
       [batchPromises EXCEPT ![j] =
          moduleFailure(selectedModules[batchStart + j], batchStart + j)]
  /\ settleOrder' = Append(settleOrder, j)
  /\ failedModules' = failedModules \cup {batchStart + j}
  /\ UNCHANGED <<selectedModules, batchStart, specModules, detailPc,
                 CONFIG, notDetail>>

\* The provider call of slot j fails: callAI retries after its pause, or
\* throws after the last attempt.
providerCallFails(j) ==
  /\ inFlight(j)
  /\ batchPromises[j].st = "calling"
  /\ IF batchPromises[j].attempt = defaultRetries
     THEN /\ batchPromises' =
               [batchPromises EXCEPT ![j] =
                  moduleFailure(selectedModules[batchStart + j], batchStart + j)]
          /\ settleOrder' = Append(settleOrder, j)
          /\ failedModules' = failedModules \cup {batchStart + j}
     ELSE /\ batchPromises' = [batchPromises EXCEPT ![j].st = "backoff"]
          /\ UNCHANGED <<settleOrder, failedModules>>
  /\ UNCHANGED <<selectedModules, batchStart, specModules, detailPc,
                 CONFIG, notDetail>>

\* callAI's pause is over: the next attempt of slot j starts.
retryAfterPause(j) ==
  /\ inFlight(j)
  /\ batchPromises[j].st = "backoff"
  /\ batchPromises' =
       [batchPromises EXCEPT ![j] = Task("calling", @.attempt + 1, NoResult)]
  /\ UNCHANGED <<selectedModules, batchStart, specModules, settleOrder, failedModules,
                 detailPc, CONFIG, notDetail>>

\* Promise.all settles: it rejects if a task rejected, otherwise the results
\* are pushed; then the pause between batches, or the next iteration.
batchSettled ==
  /\ detailPc = "await"
  /\ promiseAllSettled(batchPromises)
  /\ IF \E j \in 1..Len(batchPromises) : batchPromises[j].st = "rejected"
     THEN /\ detailPc' = "threw"
          /\ UNCHANGED <<specModules, batchStart>>
     ELSE /\ specModules' =
               specModules \o pushResults(batchResults(batchPromises, settleOrder))
          /\ IF batchStart + CONFIG.batchSize < Len(selectedModules)
             THEN detailPc' = "pause" /\ batchStart' = batchStart
             ELSE detailPc' = "loop"
                  /\ batchStart' = advance(batchStart, CONFIG.batchSize)
  /\ UNCHANGED <<selectedModules, batchPromises, settleOrder, failedModules,
                 CONFIG, notDetail>>

\* CONFIG.batchDelay has passed.
batchDelayElapsed ==
  /\ detailPc = "pause"
  /\ detailPc' = "loop"
  /\ batchStart' = advance(batchStart, CONFIG.batchSize)
  /\ UNCHANGED <<selectedModules, batchPromises, settleOrder, specModules,
                 failedModules, CONFIG, notDetail>>

\* The loop condition fails: return specification.
returnSpecification ==
  /\ detailPc = "loop"
  /\ batchStart >= Len(selectedModules)
  /\ detailPc' = "done"
  /\ UNCHANGED <<selectedModules, batchStart, batchPromises, settleOrder, specModules,
                 failedModules, CONFIG, notDetail>>

InitDetail ==
  /\ credentials \in CredentialSets
  /\ serverStart
  /\ errorIdle
  /\ CONFIG = [batchSize |-> batchSize]
  /\ selectedModules \in NameSeqs
  /\ batchStart = 0
  /\ batchPromises = <<>>
  /\ settleOrder = <<>>
  /\ specModules = <<>>
  /\ failedModules = {}
  /\ detailPc = "loop"
  /\ selectIdle
  /\ callIdle
  /\ parseIdle
  /\ countIdle
  /\ analysisIdle
  /\ stdinIdle

NextDetail ==
  \/ startBatch
  \/ \E j \in 1..MaxNames, d \in ProviderModules : moduleDetailed(j, d)
  \/ \E j \in 1..MaxNames : moduleUnparsable(j)
  \/ \E j \in 1..MaxNames : providerCallFails(j)
  \/ \E j \in 1..MaxNames : retryAfterPause(j)
  \/ batchSettled
  \/ batchDelayElapsed
  \/ returnSpecification

SpecDetail == InitDetail /\ [][NextDetail]_vars

C10_OutputOrderIsInputOrder ==
  detailPc = "done" =>
    /\ Len(specModules) = Len(selectedModules)
    /\ \A p \in 1..Len(specModules) : specModules[p].for = p

\* A full batch settled last slot first, and the run has returned.
C10_Witness ==
  /\ detailPc = "done"
  /\ Len(selectedModules) = batchSize
  /\ settleOrder = <<3, 1, 2>>
  /\ failedModules = {}

\* The slots of the batch in flight whose provider invocation has not settled.
unsettledSlots ==
  {j \in 1..Len(batchPromises) : batchPromises[j].st \in {"calling", "backoff"}}

MaxSelections == 2

performance(p) ==
  CASE p = "claude" -> 9 [] p = "openai" -> 8 [] p = "perplexity" -> 7

cost(p) ==
  CASE p = "claude" -> 6 [] p = "openai" -> 7 [] p = "perplexity" -> 4

reliability(p) ==
  CASE p = "claude" -> 9 [] p = "openai" -> 8 [] p = "perplexity" -> 7

\* The weights of taskScoring, in tenths.
taskScoring ==
  [t \in {"module-generation", "specification", "general"} |->
     CASE t = "module-generation" -> [performance |-> 4, cost |-> 3, reliability |-> 3]
       [] t = "specification" -> [performance |-> 5, cost |-> 2, reliability |-> 3]
       [] t = "general" -> [performance |-> 4, cost |-> 4, reliability |-> 2]]

\* taskScoring[taskType] || taskScoring.general
weightsOf(t) ==
  IF t \in DOMAIN taskScoring THEN taskScoring[t] ELSE taskScoring["general"]

\* The composite score of provider p for task type t, in tenths.
score(p, t) ==
  performance(p) * weightsOf(t).performance
    + (10 - cost(p)) * weightsOf(t).cost
    + reliability(p) * weightsOf(t).reliability

\* The values PREFERRED_API is set to; CONFIG.preferredAPI is 'claude' without it.
PreferredSettings == {"claude", "Claude", "openai", "perplexity", "gemini"}

toLowerCase(str) == IF str = "Claude" THEN "claude" ELSE str

\* Object.values(API_CONFIGS).filter(api => process.env[api.keyEnv])
availableApis(reg, creds) == SelectSeq(reg, LAMBDA p : p \in creds)

\* x goes behind every element whose score is not lower than its own.
RECURSIVE insertByScore(_, _, _)
insertByScore(sorted, x, t) ==
  IF sorted = <<>> THEN <<x>>
  ELSE IF score(Head(sorted), t) >= score(x, t)
       THEN <<Head(sorted)>> \o insertByScore(Tail(sorted), x, t)
       ELSE <<x>> \o sorted

\* Variant: the fallback by registry priority, without scores.
sortByPriority(apis, t) == apis

\* scoredApis.sort((a, b) => b.score - a.score): descending and stable.
RECURSIVE sortByScore(_, _)
sortByScore(apis, t) ==
  IF apis = <<>> THEN <<>>
  ELSE insertByScore(sortByScore(SubSeq(apis, 1, Len(apis) - 1), t),
                     apis[Len(apis)], t)

\* Variant: selection by score alone, the preferred provider not looked at.
getAvailableAPIByScoreOnly(reg, creds, pref, t) ==
  IF noProviderAvailable(creds) THEN "ConfigurationError"
  ELSE Head(sortByScore(availableApis(reg, creds), t))

\* The name of the provider returned, or the kind of the error thrown.
getAvailableAPI(reg, creds, pref, t) ==
  LET apis == availableApis(reg, creds)
  IN IF apis = <<>> THEN "ConfigurationError"
     ELSE IF \E k \in 1..Len(apis) : apis[k] = toLowerCase(pref)
     THEN toLowerCase(pref)
     ELSE Head(sortByScore(apis, t))

\* Variant: the registry itself is sorted by the call.
registrySortedInPlace(reg, t) == sortByScore(reg, t)

\* API_CONFIGS after a call: the filter, map and sort work on fresh arrays.
registryAfterSelection(reg, t) == reg

\* One call of getAvailableAPI(taskType).
getAvailableAPICall(t) ==
  /\ selected[t].calls < MaxSelections
  /\ selected' =
       [selected EXCEPT ![t] =
          [api |-> getAvailableAPI(registry, credentials, preferredAPI, t),
           calls |-> @.calls + 1]]
  /\ registry' = registryAfterSelection(registry, t)
  /\ UNCHANGED <<preferredAPI, notSelect>>

InitSelect ==
  /\ credentials \in SUBSET Providers
  /\ serverStart
  /\ errorIdle
  /\ detailIdle
  /\ callIdle
  /\ parseIdle
  /\ countIdle
  /\ analysisIdle
  /\ stdinIdle
  /\ registry = API_CONFIGS
  /\ preferredAPI \in PreferredSettings
  /\ selected = [t \in TaskTypes |-> NoSelectionYet]

NextSelect == \E t \in TaskTypes : getAvailableAPICall(t)

SpecSelect == InitSelect /\ [][NextSelect]_vars

\* The position of provider p in the registry.
registryIndex(p) == CHOOSE k \in 1..Len(API_CONFIGS) : API_CONFIGS[k] = p

\* C15: whenever the preferred-provider name matches a provider whose
\* credential is present, getAvailableAPI returns that provider, for every
\* task type and whatever the scores of the other available providers.
C15_PreferredProviderWins ==
  \A t \in TaskTypes :
    (selected[t].calls > 0 /\ toLowerCase(preferredAPI) \in credentials)
      => selected[t].api = toLowerCase(preferredAPI)

\* openai is preferred and returned although claude is available and scores higher.
C15_Witness ==
  /\ preferredAPI = "openai"
  /\ credentials = Providers
  /\ selected["specification"] = [api |-> "openai", calls |-> 1]
  /\ score("claude", "specification") > score("openai", "specification")

MaxRetries == 2

\* What a provider call meets: a usable text, a non-2xx status, the abort
\* timer, a failing fetch, a body without the expected text field, a body
\* that is not JSON.
Responses == {"text", "non2xx", "timeout", "networkFailure", "badShape", "badJSON"}

\* callAPI: "ok" when it returns the text, else the kind of the error it throws.
callAPI(response) ==
  CASE response = "text" -> "ok"
    [] response = "non2xx" -> "NetworkError"
    [] response = "timeout" -> "NetworkError"
    [] response = "badShape" -> "ValidationError"
    [] response \in {"networkFailure", "badJSON"} -> "NetworkError"

Callers ==
  {"generateModuleList", "generateSpecification", "handleRefineSpecification", "direct"}

\* The task type and retries a caller passes; a direct call may pass any.
callerTaskTypes(c) ==
  CASE c = "generateModuleList" -> {"module-generation"}
    [] c = "generateSpecification" -> {"specification"}
    [] c = "handleRefineSpecification" -> {"specification"}
    [] c = "direct" -> TaskTypes

callerRetries(c) == IF c = "direct" THEN 0..MaxRetries ELSE {1}

Thrown(kind, apiName, cause) == [kind |-> kind, apiName |-> apiName, cause |-> cause]

\* Variant: selection inside the retry loop, its failure retried and wrapped.
selectionFailureWrapped(retries) ==
  [NoCall EXCEPT !.pc = "threw", !.pauses = retries,
                 !.error = Thrown("APIError", "none", "ConfigurationError")]

\* getAvailableAPI throws before the loop: callAI rejects with its error.
selectionFailure(retries) ==
  [NoCall EXCEPT !.pc = "threw",
                 !.error = Thrown("ConfigurationError", "none", "none")]

\* Variant: one attempt more than asked for.
lastAttemptOffByOne(attempt, retries) == attempt = retries + 1

\* attempt === retries
lastAttempt(attempt, retries) == attempt = retries

\* Variant: the error of the last attempt is re-thrown as it is.
exhaustedErrorRethrown(api, cause) == Thrown(cause, "none", "none")

\* new APIError(`${api.display} API failed: ...`, error, api.name)
exhaustedError(api, cause) == Thrown("APIError", api, cause)

PendingCall(api) == [api |-> api, response |-> "pending"]

\* callAI up to its first await: provider selection, then the first call.
callAIStart ==
  /\ aiCall.pc = "start"
  /\ IF noProviderAvailable(credentials)
     THEN aiCall' = selectionFailure(callRetries)
     ELSE LET api == getAvailableAPI(registry, credentials, preferredAPI, taskType)
          IN aiCall' = [NoCall EXCEPT !.pc = "calling", !.api = api,
                                      !.calls = <<PendingCall(api)>>]
  /\ UNCHANGED <<taskType, callRetries, caller, notCall>>

\* The provider call in flight settles: callAI returns its text, throws
\* after the last attempt, or starts its pause.
callAPISettles(response) ==
  /\ aiCall.pc = "calling"
  /\ LET n == Len(aiCall.calls)
         done == [aiCall EXCEPT !.calls[n].response = response]
     IN IF callAPI(response) = "ok"
        THEN aiCall' = [done EXCEPT !.pc = "returned"]
        ELSE IF lastAttempt(aiCall.attempt, callRetries)
        THEN aiCall' = [done EXCEPT !.pc = "threw",
                                    !.error = exhaustedError(aiCall.api, callAPI(response))]
        ELSE aiCall' = [done EXCEPT !.pc = "pause", !.pauses = @ + 1]
  /\ UNCHANGED <<taskType, callRetries, caller, notCall>>

\* The 1000 ms pause is over: the next attempt calls the same provider.
retryAfterDelay ==
  /\ aiCall.pc = "pause"
  /\ aiCall' = [aiCall EXCEPT !.pc = "calling", !.attempt = @ + 1,
                              !.calls = Append(@, PendingCall(aiCall.api))]
  /\ UNCHANGED <<taskType, callRetries, caller, notCall>>

\* What the caller throws for an error of callAI: handleRefineSpecification
\* re-throws APIError, ValidationError and ParsingError and wraps the rest;
\* the generators have no catch.
callerError(c, e) ==
  IF c = "handleRefineSpecification"
     /\ e.kind \notin {"APIError", "ValidationError", "ParsingError"}
  THEN Thrown("APIError", "AI", e.kind)
  ELSE e

\* What the text callAI returned turns out to be when the caller hands it to
\* parseJSONFromResponse: a non-empty array, an empty array, an object with
\* a modules array, or a text the parser throws on.
ParseOutcomes == {"array", "emptyArray", "object", "unparsable"}

\* A direct call of callAI parses nothing.
callerParses(c) == IF c = "direct" THEN {"none"} ELSE ParseOutcomes

\* What the caller throws after the parse ("none": it goes on): the
\* generators return the parser's value as it is and let its ParsingError
\* through; handleRefineSpecification rejects a value without a modules
\* array and re-throws both kinds as they are.
callerParseError(c, outcome) ==
  IF outcome = "unparsable" THEN "ParsingError"
  ELSE IF c = "handleRefineSpecification" /\ outcome \in {"array", "emptyArray"}
  THEN "ValidationError"
  ELSE "none"

\* The caller resumes from its await of callAI: with the text it parses it,
\* with the error it throws.
callerResumes(outcome) ==
  /\ aiCall.pc \in {"returned", "threw"}
  /\ IF aiCall.pc = "returned"
     THEN /\ outcome \in callerParses(caller)
          /\ aiCall' =
               IF callerParseError(caller, outcome) = "none"
               THEN [aiCall EXCEPT !.pc = "callerReturned", !.parse = outcome]
               ELSE [aiCall EXCEPT
                       !.pc = "callerThrew", !.parse = outcome,
                       !.error = Thrown(callerParseError(caller, outcome), "none", "none")]
     ELSE /\ outcome = "none"
          /\ aiCall' = [aiCall EXCEPT !.pc = "callerThrew",
                                      !.error = callerError(caller, @)]
  /\ UNCHANGED <<taskType, callRetries, caller, notCall>>

InitCall ==
  /\ credentials \in SUBSET Providers
  /\ serverStart
  /\ errorIdle
  /\ detailIdle
  /\ registry = API_CONFIGS
  /\ preferredAPI \in PreferredSettings
  /\ selected = [t \in TaskTypes |-> NoSelectionYet]
  /\ caller \in Callers
  /\ taskType \in callerTaskTypes(caller)
  /\ callRetries \in callerRetries(caller)
  /\ aiCall = [NoCall EXCEPT !.pc = "start"]
  /\ parseIdle
  /\ countIdle
  /\ analysisIdle
  /\ stdinIdle

NextCall ==
  \/ callAIStart
  \/ \E response \in Responses : callAPISettles(response)
  \/ retryAfterDelay
  \/ \E outcome \in ParseOutcomes \cup {"none"} : callerResumes(outcome)

SpecCall == InitCall /\ [][NextCall]_vars

callCount == Len(aiCall.calls)

callFailed(k) == aiCall.calls[k].response \notin {"text", "pending"}

\* callAI returned its text (whatever the caller then made of it).
callAIReturned ==
  \/ aiCall.pc \in {"returned", "callerReturned"}
  \/ aiCall.pc = "callerThrew" /\ aiCall.parse # "none"

\* callAI threw (and the caller may have thrown on).
callAIThrew ==
  \/ aiCall.pc = "threw"
  \/ aiCall.pc = "callerThrew" /\ aiCall.parse = "none"

\* C12: callAI makes at most retries+1 provider calls (at most 2 with
\* retries = 1); after its first successful call it makes no other, when
\* every call fails it has made exactly retries+1, and every call goes to
\* the provider selected at the start.
C12_AtMostRetriesPlusOneCalls ==
  /\ callCount <= callRetries + 1
  /\ callRetries = 1 => callCount <= 2
  /\ \A k \in 1..callCount : aiCall.calls[k].api = aiCall.api
  /\ callAIReturned =>
       /\ callCount >= 1
       /\ aiCall.calls[callCount].response = "text"
       /\ \A k \in 1..(callCount - 1) : callFailed(k)
  /\ (callAIThrew /\ credentials # {}) =>
       /\ callCount = callRetries + 1
       /\ \A k \in 1..callCount : callFailed(k)

\* With retries = 2 the second call succeeded and the caller went on: two
\* calls, not three.
C12_Witness ==
  /\ aiCall.pc = "callerReturned"
  /\ callRetries = 2
  /\ callCount = 2
  /\ callFailed(1)

\* C13: when every attempt fails, callAI throws an APIError that names the
\* provider used and wraps the error of the last attempt; the caller that
\* receives it makes no further provider call.
C13_ExhaustionGivesAPIError ==
  [][/\ (aiCall'.pc = "threw" /\ credentials # {}) =>
          /\ aiCall'.error.kind = "APIError"
          /\ aiCall'.error.apiName = aiCall'.api
          /\ aiCall'.error.apiName \in credentials
          /\ aiCall'.error.cause = callAPI(aiCall'.calls[Len(aiCall'.calls)].response)
     /\ aiCall.pc \in {"threw", "callerThrew"} =>
          /\ aiCall'.calls = aiCall.calls
          /\ aiCall'.pc \in {"threw", "callerThrew"}
     /\ (aiCall.pc = "threw" /\ aiCall'.pc = "callerThrew" /\ credentials # {}) =>
          aiCall'.error = aiCall.error]_vars

\* Both attempts of a refine's callAI failed, the last one on a timeout, and
\* the handler has thrown the APIError on.
C13_Witness ==
  /\ aiCall.pc = "callerThrew"
  /\ caller = "handleRefineSpecification"
  /\ callCount = 2
  /\ aiCall.calls[2].response = "timeout"
  /\ aiCall.error = [kind |-> "APIError", apiName |-> aiCall.api, cause |-> "NetworkError"]

\* C14: a provider response of unexpected shape raises a ValidationError that
\* is not retried: no provider call follows an attempt that failed with
\* ValidationError, and what callAI throws for it is that ValidationError.
C14_ValidationErrorNotRetried ==
  [][\A k \in 1..callCount :
       aiCall.calls[k].response = "badShape" =>
         /\ Len(aiCall'.calls) = callCount
         /\ aiCall'.pc \in {"threw", "callerThrew"} => aiCall'.error.kind = "ValidationError"]_vars

\* C18: with no credential present callAI throws the ConfigurationError of
\* the selection before any provider call, without pause or retry, and not
\* wrapped in another kind.
C18_NoCredentialFailsAtSelection ==
  credentials = {} =>
    /\ aiCall.calls = <<>>
    /\ aiCall.pauses = 0
    /\ aiCall.pc \in {"start", "threw", "callerThrew"}
    /\ aiCall.pc = "threw" => aiCall.error = [kind |-> "ConfigurationError",
                                             apiName |-> "none", cause |-> "none"]

\* callAI has thrown the ConfigurationError to generateModuleList without a call.
C18_Witness ==
  /\ credentials = {}
  /\ caller = "generateModuleList"
  /\ aiCall.pc = "threw"
  /\ aiCall.error.kind = "ConfigurationError"
  /\ aiCall.calls = <<>>


(* --------------------------- src/mcp-server.js: parseJSONFromResponse *)
MaxTextLen == 4

\* A response text is a sequence of tokens: braces, brackets, a number, a
\* member key with its colon ("k"), a comma, a word of prose ("p"), a code
\* fence ("F") and the word json ("j").
Alphabet == {"{", "}", "[", "]", "1", "k", ",", "p", "F"}

RawTexts == UNION {[1..n -> Alphabet] : n \in 0..MaxTextLen}

\* Answers in a fenced block labelled json, after a word of prose.
FencedTexts ==
  {<<"p", "F", "j">> \o v \o <<"F">> :
     v \in {<<"{", "}">>, <<"{", "k", "1", "}">>, <<"[", "1", "]">>, <<"1">>, <<"p">>}}

\* JSON objects and arrays a provider is asked for.
JSONValues ==
  {<<"{", "}">>, <<"{", "k", "1", "}">>, <<"[", "1", "]">>, <<"[", "{", "}", "]">>}

\* What an answer puts around and into its JSON: a fenced block, prose
\* before and after, a comma before the last closer, an inline comment
\* ("c") and a control character ("x").
Wrappings ==
  [fence : BOOLEAN, lead : BOOLEAN, trail : BOOLEAN, comma : BOOLEAN,
   comment : BOOLEAN, control : BOOLEAN]

Opt(flag, toks) == IF flag THEN toks ELSE <<>>

wrap(v, w) ==
  LET body == <<v[1]>> \o Opt(w.comment, <<"c">>) \o Opt(w.control, <<"x">>)
                \o SubSeq(v, 2, Len(v) - 1)
                \o Opt(w.comma /\ Len(v) > 2, <<",">>) \o <<v[Len(v)]>>
  IN Opt(w.lead, <<"p">>) \o Opt(w.fence, <<"F", "j">>) \o body
       \o Opt(w.fence, <<"F">>) \o Opt(w.trail, <<"p">>)

WrappedTexts == {wrap(v, w) : v \in JSONValues, w \in Wrappings}

ResponseTexts ==
  {[isString |-> TRUE, text |-> t] : t \in RawTexts \cup FencedTexts \cup WrappedTexts}
    \cup {[isString |-> FALSE, text |-> <<>>]}

ExpectedShapes == {"object", "array"}

\* The position behind the JSON value that starts at position i of t, or 0
\* when no value starts there.
RECURSIVE endOfValue(_, _), endOfElements(_, _, _), endOfMembers(_, _, _)
endOfValue(t, i) ==
  IF i > Len(t) THEN 0
  ELSE IF t[i] = "1" THEN i + 1
  ELSE IF t[i] = "[" THEN endOfElements(t, i + 1, TRUE)
  ELSE IF t[i] = "{" THEN endOfMembers(t, i + 1, TRUE)
  ELSE 0

endOfElements(t, i, first) ==
  IF i > Len(t) THEN 0
  ELSE IF first /\ t[i] = "]" THEN i + 1
  ELSE LET e == endOfValue(t, i)
       IN IF e = 0 \/ e > Len(t) THEN 0
          ELSE IF t[e] = "]" THEN e + 1
          ELSE IF t[e] = "," THEN endOfElements(t, e + 1, FALSE)
          ELSE 0

endOfMembers(t, i, first) ==
  IF i > Len(t) THEN 0
  ELSE IF first /\ t[i] = "}" THEN i + 1
  ELSE IF t[i] # "k" THEN 0
  ELSE LET e == endOfValue(t, i + 1)
       IN IF e = 0 \/ e > Len(t) THEN 0
          ELSE IF t[e] = "}" THEN e + 1
          ELSE IF t[e] = "," THEN endOfMembers(t, e + 1, FALSE)
          ELSE 0

\* JSON.parse: the value, when the whole text is one JSON value.
JSONparse(t) ==
  IF endOfValue(t, 1) = Len(t) + 1
  THEN [ok |-> TRUE, value |-> t]
  ELSE [ok |-> FALSE, value |-> <<>>]

\* The kind of a parsed value: typeof and Array.isArray.
typeOf(v) ==
  IF v[1] = "{" THEN "object" ELSE IF v[1] = "[" THEN "array" ELSE "number"

NoMatch == [found |-> FALSE, text |-> <<>>]

Positions(t, tok) == {i \in 1..Len(t) : t[i] = tok}

MinOf(S) == CHOOSE x \in S : \A y \in S : x <= y

MaxOf(S) == CHOOSE x \in S : \A y \in S : x >= y

\* response.match(codeBlockRegex): the text between the
\* first fence, an optional json behind it, and the next fence.
codeBlockMatch(t) ==
  IF Cardinality(Positions(t, "F")) < 2 THEN NoMatch
  ELSE LET a == MinOf(Positions(t, "F"))
           b == MinOf(Positions(t, "F") \ {a})
           from == IF t[a + 1] = "j" THEN a + 2 ELSE a + 1
       IN [found |-> TRUE, text |-> SubSeq(t, from, b - 1)]

\* From the first "{" to the last "}".
braceSpan(t) ==
  IF Positions(t, "{") = {} \/ Positions(t, "}") = {} THEN NoMatch
  ELSE LET a == MinOf(Positions(t, "{"))
           b == MaxOf(Positions(t, "}"))
       IN IF b > a THEN [found |-> TRUE, text |-> SubSeq(t, a, b)] ELSE NoMatch

\* The bracket-counting loop: startIndex and endIndex (0 for -1).
RECURSIVE countBrackets(_, _, _, _)
countBrackets(t, i, bracketCount, startIndex) ==
  IF i > Len(t) THEN [startIndex |-> startIndex, endIndex |-> 0]
  ELSE IF t[i] = "{"
  THEN countBrackets(t, i + 1, bracketCount + 1,
                     IF bracketCount = 0 THEN i ELSE startIndex)
  ELSE IF t[i] = "}"
  THEN IF bracketCount - 1 = 0 /\ startIndex # 0
       THEN [startIndex |-> startIndex, endIndex |-> i]
       ELSE countBrackets(t, i + 1, bracketCount - 1, startIndex)
  ELSE countBrackets(t, i + 1, bracketCount, startIndex)

balancedSpan(t) ==
  LET r == countBrackets(t, 1, 0, 0)
  IN IF r.startIndex # 0 /\ r.endIndex # 0
     THEN [found |-> TRUE, text |-> SubSeq(t, r.startIndex, r.endIndex)]
     ELSE NoMatch

\* The text strategy n hands to JSON.parse, when the strategy applies.
strategyInput(n, t) ==
  CASE n = 1 -> [found |-> TRUE, text |-> t]
    [] n = 2 -> codeBlockMatch(t)
    [] n = 3 -> braceSpan(t)
    [] n = 4 -> balancedSpan(t)

strategySucceeds(n, t) ==
  strategyInput(n, t).found /\ JSONparse(strategyInput(n, t).text).ok

Returned(n, v) == [kind |-> "returned", error |-> "none", strategy |-> n, value |-> v]

ThrewParsingError ==
  [kind |-> "threw", error |-> "ParsingError", strategy |-> 0, value |-> <<>>]

\* The four strategies in turn; whatever JSON.parse yields is returned.
parseJSONFromResponse(r) ==
  IF ~r.isString THEN ThrewParsingError
  ELSE IF \E n \in 1..4 : strategySucceeds(n, r.text)
  THEN LET n == MinOf({m \in 1..4 : strategySucceeds(m, r.text)})
       IN Returned(n, JSONparse(strategyInput(n, r.text).text).value)
  ELSE ThrewParsingError

parseCall ==
  /\ parsed = NotParsed
  /\ parsed' = parseJSONFromResponse(responseText)
  /\ UNCHANGED <<responseText, expectedShape, notParse>>

InitParse ==
  /\ credentials = {}
  /\ serverStart
  /\ errorIdle
  /\ detailIdle
  /\ selectIdle
  /\ callIdle
  /\ responseText \in ResponseTexts
  /\ expectedShape \in ExpectedShapes
  /\ parsed = NotParsed
  /\ countIdle
  /\ analysisIdle
  /\ stdinIdle

NextParse == parseCall

SpecParse == InitParse /\ [][NextParse]_vars

\* The text is, as a whole, one valid JSON value of the given kind.
isExactly(r, shape) ==
  /\ r.isString
  /\ JSONparse(r.text).ok
  /\ typeOf(r.text) = shape

\* C19: the parser rejects the wrong shape: with an array expected it fails
\* on a text that is only a valid object, with an object expected it fails
\* on a text that is only a valid array, and it never returns a scalar.
C19_ParserRejectsWrongShape ==
  parsed # NotParsed =>
    /\ (expectedShape = "array" /\ isExactly(responseText, "object"))
         => parsed.kind = "threw"
    /\ (expectedShape = "object" /\ isExactly(responseText, "array"))
         => parsed.kind = "threw"
    /\ parsed.kind = "returned" => typeOf(parsed.value) \in {"object", "array"}

\* C20: the parser has two outcomes only: a value of the expected shape, or
\* a ParsingError.
C20_ParserTwoOutcomes ==
  parsed # NotParsed =>
    \/ parsed.kind = "returned" /\ typeOf(parsed.value) = expectedShape
    \/ parsed.kind = "threw" /\ parsed.error = "ParsingError"

\* C21: round trip: for every JSON object or array v and every wrapping
\* (fenced block, leading prose, trailing prose, trailing comma, inline
\* comment, control character, in any combination) the parser returns v
\* from wrap(v).
C21_ParserRoundTrip ==
  parsed # NotParsed =>
    \A v \in JSONValues, w \in Wrappings :
      responseText = [isString |-> TRUE, text |-> wrap(v, w)]
        => parsed.kind = "returned" /\ parsed.value = v

\* C29: in module discovery a parse failure of the text of attempt N, with
\* retry budget left, leads to a fresh provider call (attempt N+1), not to
\* the failure of the operation.
C29_ParseFailureLeadsToFreshCall ==
  [][(/\ caller = "generateModuleList"
      /\ aiCall.pc = "returned"
      /\ aiCall.attempt < callRetries
      /\ aiCall'.parse = "unparsable")
       => aiCall'.pc \in {"pause", "calling"}]_vars

\* C30: generateModuleList fails with the domain-level error 'module
\* structure generation failed', wrapping the cause, whenever callAI throws
\* or the text does not parse to a non-empty array, and makes no provider
\* call beyond the retry budget of callAI.
C30_DiscoveryFailureIsDomainError ==
  (caller = "generateModuleList" /\ aiCall.pc \in {"callerReturned", "callerThrew"})
    => /\ callCount <= callRetries + 1
       /\ aiCall.parse # "array" =>
            /\ aiCall.pc = "callerThrew"
            /\ aiCall.error.kind = "Module structure generation failed"
            /\ aiCall.error.cause # "none"

\* Strategy n parses a value out of t, and the value has the given shape.
strategyYields(n, t, shape) ==
  /\ strategySucceeds(n, t)
  /\ typeOf(JSONparse(strategyInput(n, t).text).value) = shape

\* C28: the strategies run in a fixed order, a later one only after all
\* earlier ones failed, and a parse of the wrong shape is a failure of its
\* strategy: the parser returns what the first strategy that yields a value
\* of the expected shape yields, and throws when there is none.
C28_FirstStrategyOfRightShapeWins ==
  (parsed # NotParsed /\ responseText.isString) =>
    LET good == {n \in 1..4 : strategyYields(n, responseText.text, expectedShape)}
    IN IF good = {}
       THEN parsed.kind = "threw"
       ELSE /\ parsed.kind = "returned"
            /\ parsed.strategy = MinOf(good)
            /\ parsed.value = JSONparse(strategyInput(MinOf(good), responseText.text).text).value

\* ------------------------------------------------------------------------
\* Module count: getModuleCount and inferModuleCountFromDescription of
\* src/mcp-server.js, and the getModuleCount of the command-line variants
\* (src/sds.js and src/unnamed/part_002).
\*
\* The heuristic reads a description only through text.includes(keyword) and
\* through the number of whitespace-separated words, so a description is
\* modelled by what those reads see: how many keywords of each list occur,
\* the word count, and the four platform tests.
\* ------------------------------------------------------------------------

BaseScore == 5
NumHigh == 10
NumMedium == 8
NumLow == 4
\* Keywords that contain a blank: 'api integration', 'machine learning';
\* 'user management', 'admin panel', 'file upload'.
SpacedHigh == 2
SpacedMedium == 3
MinCount == 4
MaxCount == 15
DefaultCount == 8

MaxWords == 1001

\* Word counts on both sides of each threshold of the length factor; 1 is
\* what ''.split(/\s+/).length gives for the empty string.
WordCounts == {1, 19, 20, 50, 51, 100, 101, MaxWords}

AtLeastZero(n) == IF n < 0 THEN 0 ELSE n

\* A keyword with a blank in it puts one more word into the text, and the
\* keyword 'email' contains the keyword 'ai'.
realizable(d) ==
  /\ d.words >= 1 + AtLeastZero(d.high - (NumHigh - SpacedHigh))
                  + AtLeastZero(d.medium - (NumMedium - SpacedMedium))
  /\ d.medium = NumMedium => d.high >= 1

ProjectDescriptions ==
  { d \in [high : 0..NumHigh, medium : 0..NumMedium, low : 0..NumLow,
           words : WordCounts, mobile : BOOLEAN, web : BOOLEAN,
           backend : BOOLEAN, distributed : BOOLEAN] : realizable(d) }

CountComplexityLevels == {"simple", "medium", "complex", "auto", "expert"}

keywordScore(d) == 2 * d.high + d.medium - d.low

lengthFactorInclusive(wordCount) ==
  IF wordCount >= 100 THEN 2
  ELSE IF wordCount > 50 THEN 1
  ELSE IF wordCount < 20 THEN 0 - 1
  ELSE 0

lengthFactor(wordCount) ==
  IF wordCount > 100 THEN 2
  ELSE IF wordCount > 50 THEN 1
  ELSE IF wordCount < 20 THEN 0 - 1
  ELSE 0

platformComplexity(d) ==
  (IF d.mobile THEN 1 ELSE 0)
  + (IF d.web /\ d.backend THEN 2 ELSE 0)
  + (IF d.distributed THEN 3 ELSE 0)

heuristicScore(d) ==
  BaseScore + keywordScore(d) + lengthFactor(d.words) + platformComplexity(d)

MathMax(a, b) == IF a >= b THEN a ELSE b
MathMin(a, b) == IF a <= b THEN a ELSE b

\* Variant: the result is capped at MaxCount but has no floor.
inferModuleCountNoFloor(description) ==
  MathMin(MaxCount, heuristicScore(description))

\* Math.round is applied to a score that is a sum of integers.
inferModuleCountFromDescription(description) ==
  MathMax(MinCount, MathMin(MaxCount, heuristicScore(description)))

moduleCounts == [simple |-> 4, medium |-> 8, complex |-> 12]

cliModuleCounts == [simple |-> 5, medium |-> 8, complex |-> 12]

\* table[level] || 8
countOrDefault(table, complexity_level) ==
  IF complexity_level \in DOMAIN table /\ table[complexity_level] # 0
    THEN table[complexity_level]
    ELSE DefaultCount

getModuleCount(complexity_level, description) ==
  IF complexity_level = "auto"
    THEN inferModuleCountFromDescription(description)
    ELSE countOrDefault(moduleCounts, complexity_level)

\* src/sds.js: no 'auto' branch, the description is not a parameter.
cliGetModuleCount(complexity_level) ==
  countOrDefault(cliModuleCounts, complexity_level)

part2GetModuleCount(complexity_level, description) ==
  IF complexity_level = "auto"
    THEN inferModuleCountFromDescription(description)
    ELSE countOrDefault(cliModuleCounts, complexity_level)

InitCount ==
  /\ credentials = {}
  /\ serverStart
  /\ errorIdle
  /\ detailIdle
  /\ selectIdle
  /\ callIdle
  /\ parseIdle
  /\ projectDescription \in ProjectDescriptions
  /\ complexityLevel \in CountComplexityLevels
  /\ moduleCount = NotCounted
  /\ heuristicCalls = 0
  /\ analysisIdle
  /\ stdinIdle

callGetModuleCount ==
  /\ moduleCount = NotCounted
  /\ moduleCount' = [variant |-> "mcp",
                     count |-> getModuleCount(complexityLevel, projectDescription)]
  /\ heuristicCalls' = IF complexityLevel = "auto" THEN 1 ELSE 0
  /\ UNCHANGED <<projectDescription, complexityLevel>>
  /\ UNCHANGED notCount

callCliGetModuleCount ==
  /\ moduleCount = NotCounted
  /\ moduleCount' = [variant |-> "cli",
                     count |-> cliGetModuleCount(complexityLevel)]
  /\ heuristicCalls' = 0
  /\ UNCHANGED <<projectDescription, complexityLevel>>
  /\ UNCHANGED notCount

callPart2GetModuleCount ==
  /\ moduleCount = NotCounted
  /\ moduleCount' = [variant |-> "part2",
                     count |-> part2GetModuleCount(complexityLevel, projectDescription)]
  /\ heuristicCalls' = IF complexityLevel = "auto" THEN 1 ELSE 0
  /\ UNCHANGED <<projectDescription, complexityLevel>>
  /\ UNCHANGED notCount

NextCount ==
  \/ callGetModuleCount
  \/ callCliGetModuleCount
  \/ callPart2GetModuleCount

SpecCount == InitCount /\ [][NextCount]_vars

\* C22: inferModuleCountFromDescription returns an integer in 4..15 for
\* every description: the empty one, one of more than 1000 words, and every
\* combination of keywords.
C22_InferredCountInRange ==
  heuristicCalls = 1 => moduleCount.count \in 4..15

\* The empty description has been counted: one word, no keyword, so the
\* score is 5 - 1 = 4.
C22_Witness ==
  /\ heuristicCalls = 1
  /\ projectDescription = EmptyDescription
  /\ moduleCount.count = 4

\* A description of more than 1000 words carrying every high keyword has
\* been counted.
C22_LongDescriptionCounted ==
  /\ heuristicCalls = 1
  /\ projectDescription.words > 1000
  /\ projectDescription.high = NumHigh
  /\ moduleCount.count = 15

explicitCount(level) ==
  CASE level = "simple" -> 4
    [] level = "medium" -> 8
    [] level = "complex" -> 12

\* C23: for an explicit complexity level getModuleCount returns a fixed
\* count, whatever the description, without calling the heuristic: simple
\* gives 4, medium 8 and complex 12, in the MCP server and in the
\* command-line variants alike.
C23_ExplicitLevelFixedCount ==
  (moduleCount # NotCounted /\ complexityLevel \in {"simple", "medium", "complex"})
    => /\ moduleCount.count = explicitCount(complexityLevel)
       /\ heuristicCalls = 0

claimedScore(d) ==
  5 + 2 * d.high + d.medium - d.low
    + (IF d.words > 100 THEN 2 ELSE IF d.words > 50 THEN 1
       ELSE IF d.words < 20 THEN 0 - 1 ELSE 0)
    + (IF d.mobile THEN 1 ELSE 0)
    + (IF d.web /\ d.backend THEN 2 ELSE 0)
    + (IF d.distributed THEN 3 ELSE 0)

\* C24: with complexity 'auto' the MCP server's module count is the score
\* (5, plus 2 per high keyword, plus 1 per medium keyword, minus 1 per low
\* keyword, plus the length bonus, plus the platform bonuses) clamped to
\* 4..15, and a score above 15 gives exactly 15.
C24_AutoCountIsClampedScore ==
  (moduleCount.variant = "mcp" /\ complexityLevel = "auto")
    => /\ moduleCount.count =
            (IF claimedScore(projectDescription) < 4 THEN 4
             ELSE IF claimedScore(projectDescription) > 15 THEN 15
             ELSE claimedScore(projectDescription))
       /\ claimedScore(projectDescription) > 15 => moduleCount.count = 15

\* A description of exactly 100 words whose score lies strictly inside the
\* range, and the count is that score.
C24_Witness ==
  /\ moduleCount.variant = "mcp"
  /\ complexityLevel = "auto"
  /\ projectDescription.words = 100
  /\ claimedScore(projectDescription) = 14
  /\ moduleCount.count = 14

\* ------------------------------------------------------------------------
\* Claims on the session store of the MCP server (specification Spec).
\* ------------------------------------------------------------------------

sessionSpecification(sess, st, sid) == st[sess[sid]].specification

\* C25: every issued session id maps to one specification; a session, once
\* created, is there in every later state; and the specification under an
\* id is the one written by the most recent successful analyze, refine or
\* select for that id: it appears or changes only in the step of a request
\* for that id that ends with a result.
C25_SessionHoldsLastSuccessfulWrite ==
  [][/\ DOMAIN sessions \subseteq DOMAIN sessions'
     /\ \A sid \in DOMAIN sessions' :
          (\/ sid \notin DOMAIN sessions
           \/ sessionSpecification(sessions', store', sid)
                # sessionSpecification(sessions, store, sid))
            => /\ last'.frame.sid = sid
               /\ last'.frame.status = "done"]_vars

\* C33: the session store changes only in the step of a successful analyze
\* (one session more) or of a successful refine or select (one session's
\* specification replaced, last_modified stamped); every other request and
\* every request that ends in an error leaves the whole store as it was.
C33_StoreChangesOnlyOnSuccess ==
  [][(store' # store \/ sessions' # sessions)
       => /\ last'.frame.status = "done"
          /\ \/ /\ last'.op = "analyze_spec"
                /\ Len(store') = Len(store) + 1
                /\ \A oid \in DOMAIN store : store'[oid] = store[oid]
             \/ /\ last'.op \in {"refine_settled", "select_done"}
                /\ Len(store') = Len(store)
                /\ \A oid \in DOMAIN store :
                     oid # last'.frame.oid => store'[oid] = store[oid]]_vars

\* The value is what both prompts of the analyze handler ask for: an object
\* with a modules array (and, for the specification, the techStack given).
asPrompted(v) == v.t = "obj" /\ v.mk = "array" /\ v.ts = "ok"

\* C34: when every provider call of an analyze succeeds with JSON in the
\* format its prompt asked for, the analyze does not fail: after the module
\* list it goes on, and after the specification it ends with a result line
\* and one new session whose specification has a modules array.
C34_AnalyzeSucceedsOnPromptedFormat ==
  [][/\ (/\ last'.op = "analyze_modlist"
         /\ last'.ai.res = "json"
         /\ asPrompted(last'.ai.v))
          => last'.frame.status # "failed"
     /\ (/\ last'.op = "analyze_spec"
         /\ Len(store') = Len(store) + 1
         /\ asPrompted(store'[Len(store')].specification))
          => /\ last'.frame.status = "done"
             /\ last'.frame.lines = <<ResultLine(last'.frame.id)>>]_vars

\* C35: every analyze that stores a session stores it under an id that was
\* not in the store before: the creation of a session never overwrites an
\* existing one, also when two analyzes complete in the same millisecond.
C35_NewSessionIdIsFresh ==
  [][(last'.op = "analyze_spec" /\ Len(store') = Len(store) + 1)
       => /\ last'.frame.sid \notin DOMAIN sessions
          /\ \A sid \in DOMAIN sessions : sessions'[sid] = sessions[sid]]_vars

\* C36: a refine or a select that writes changes nothing but the
\* specification and last_modified of the session it addresses: the id still
\* names the same session data, whose platform, complexity,
\* advanced_features and created_at are as analyze set them, and every other
\* session is untouched.
C36_WriteTouchesTwoFieldsOfOneSession ==
  [][(/\ last'.op \in {"refine_settled", "select_done"}
      /\ (store' # store \/ sessions' # sessions))
       => /\ sessions' = sessions
          /\ \A oid \in DOMAIN store :
               IF oid = sessions[last'.frame.sid]
               THEN store'[oid] =
                      [store[oid] EXCEPT
                         !.specification = store'[oid].specification,
                         !.last_modified = store'[oid].last_modified]
               ELSE store'[oid] = store[oid]]_vars

\* a can be had from b by leaving elements out.
RECURSIVE isSubsequence(_, _)
isSubsequence(a, b) ==
  IF a = <<>> THEN TRUE
  ELSE IF b = <<>> THEN FALSE
  ELSE IF Head(a) = Head(b) THEN isSubsequence(Tail(a), Tail(b))
  ELSE isSubsequence(a, Tail(b))

\* C37: select_modules is monotone and idempotent on a session: the modules
\* stored by a select are a subsequence of the modules stored before it, and
\* a select that directly follows a select of the same session with the same
\* name list stores the modules it found.
C37_SelectMonotoneAndIdempotent ==
  [][last'.op = "select_done"
       => LET old == store[last'.frame.oid].specification.items
              new == store'[last'.frame.oid].specification.items
          IN /\ isSubsequence(new, old)
             /\ (/\ last.op = "select_done"
                 /\ last.frame.oid = last'.frame.oid
                 /\ last.sel.names = last'.sel.names)
                  => new = old]_vars

\* The second of two selects has run on a session of two differently named
\* modules: the first had left one of them, the second found and left that one.
C37_Witness ==
  /\ last.op = "select_done"
  /\ Len(hist[last.frame.oid].base) = 2
  /\ hist[last.frame.oid].base[1] # hist[last.frame.oid].base[2]
  /\ Cardinality(last.sel.names) = 1
  /\ hist[last.frame.oid].allowed = last.sel.names
  /\ Len(last.arg.items) = 1
  /\ store[last.frame.oid].specification.items = last.arg.items

\* C27: the handlers' read-modify-write of a session loses no update while
\* several requests are in flight: when a refine stores its specification,
\* the session still holds the specification the refine read before its
\* provider call, so the refine overwrites nothing that a select_modules or
\* another refine wrote in between.
C27_RefineOverwritesOnlyWhatItRead ==
  [][(/\ last'.op = "refine_settled"
      /\ last'.ai.res = "json"
      /\ isValidSpecification(last'.ai.v))
       => store[last'.frame.oid].specification = last'.frame.currentSpec]_vars


\* ------------------------------------------------------------------------
\* Platform and complexity arguments: handleAnalyzeProjectRequest and
\* handleSelectTechStack of src/mcp-server.js over the whole range of their
\* platform and complexity arguments.  A provider is configured; a provider
\* call either gives a usable value or fails.
\* ------------------------------------------------------------------------

PlatformArguments == {"auto", "mobile", "web", "backend", "quantum"}

DescriptionWords == {"mobile", "web", "plain"}

PlatformTools == {"analyze_project_request", "select_tech_stack"}

\* What the count heuristic sees of a short description with that one word.
countView(word) ==
  [EmptyDescription EXCEPT !.mobile = (word = "mobile"), !.web = (word = "web")]

\* availableStacks ? availableStacks[0] : techStackOptions.web[0]
selectedTechStack(platform) ==
  IF platform \in techStackOptions THEN platform ELSE "web"

InitAnalysis ==
  /\ credentials = {"claude"}
  /\ serverStart
  /\ errorIdle
  /\ detailIdle
  /\ selectIdle
  /\ callIdle
  /\ parseIdle
  /\ countIdle
  /\ \E tool \in PlatformTools, tp \in PlatformArguments,
        cl \in CountComplexityLevels, w \in DescriptionWords :
       analysis = [NoAnalysis EXCEPT !.tool = tool, !.target_platform = tp,
                                     !.complexity_level = cl, !.word = w,
                                     !.pc = "received"]
  /\ stdinIdle

\* handleAnalyzeProjectRequest up to the provider call of generateModuleList.
analyzeSelectsTechStack ==
  /\ analysis.tool = "analyze_project_request"
  /\ analysis.pc = "received"
  /\ LET platform == detectedPlatform(analysis.target_platform, analysis.word)
     IN analysis' = [analysis EXCEPT !.detectedPlatform = platform,
                                     !.stack = selectedTechStack(platform),
                                     !.providerCalls = 1,
                                     !.pc = "modlist"]
  /\ UNCHANGED notAnalysis

\* generateModuleList returns or throws; getModuleCount; then the provider
\* call of generateSpecification.
analyzeCountsModules(ok) ==
  /\ analysis.pc = "modlist"
  /\ analysis' =
       IF ok
       THEN [analysis EXCEPT
               !.moduleCount = getModuleCount(analysis.complexity_level,
                                              countView(analysis.word)),
               !.providerCalls = 2,
               !.pc = "spec"]
       ELSE [analysis EXCEPT !.pc = "failed", !.error = "APIError"]
  /\ UNCHANGED notAnalysis

\* generateSpecification returns or throws; the session is stored and the
\* result written.
analyzeStoresSession(ok) ==
  /\ analysis.pc = "spec"
  /\ analysis' =
       IF ok
       THEN [analysis EXCEPT !.pc = "done"]
       ELSE [analysis EXCEPT !.pc = "failed", !.error = "APIError"]
  /\ UNCHANGED notAnalysis

\* handleSelectTechStack with its platform argument.
selectTechStackCall ==
  /\ analysis.tool = "select_tech_stack"
  /\ analysis.pc = "received"
  /\ analysis' =
       IF analysis.target_platform \notin techStackOptions
       THEN [analysis EXCEPT !.pc = "failed", !.error = "ValidationError"]
       ELSE [analysis EXCEPT !.stack = analysis.target_platform, !.pc = "done"]
  /\ UNCHANGED notAnalysis

NextAnalysis ==
  \/ analyzeSelectsTechStack
  \/ \E ok \in BOOLEAN : analyzeCountsModules(ok)
  \/ \E ok \in BOOLEAN : analyzeStoresSession(ok)
  \/ selectTechStackCall

SpecAnalysis == InitAnalysis /\ [][NextAnalysis]_vars

unsupportedPlatform(a) ==
  IF a.tool = "select_tech_stack"
  THEN a.target_platform \notin techStackOptions
  ELSE a.target_platform \notin techStackOptions \cup {"auto"}

unsupportedComplexity(a) ==
  /\ a.tool = "analyze_project_request"
  /\ a.complexity_level \notin {"simple", "medium", "complex", "auto"}

\* C26: a request naming an unsupported platform or complexity value fails
\* with a ConfigurationError and goes to no provider call: no default is put
\* in its place.
C26_UnsupportedValueIsConfigurationError ==
  (analysis.pc \notin {"idle", "received"}
     /\ (unsupportedPlatform(analysis) \/ unsupportedComplexity(analysis)))
    => /\ analysis.pc = "failed"
       /\ analysis.error = "ConfigurationError"
       /\ analysis.providerCalls = 0

\* ------------------------------------------------------------------------
\* Further claims on the module detailer (specification SpecDetail).
\* ------------------------------------------------------------------------

\* Slot j's invocation fails in this step: it goes to its pause, or the
\* task gives up and resolves with the stub.
slotFails(j) ==
  /\ inFlight(j)
  /\ batchPromises[j].st = "calling"
  /\ \/ batchPromises'[j].st = "backoff"
     \/ batchPromises'[j].st = "rejected"
     \/ /\ batchPromises'[j].st = "settled"
        /\ batchPromises'[j].result.description = "placeholder"

\* C31: within a batch the failure or timeout of one module's invocation
\* neither cancels nor fails its siblings: the other tasks stay as they are
\* (attempts included), the batch goes on, every task of the batch has
\* settled with a result of its own when the batch ends, and the stub
\* stands for the failing modules only.
C31_FailureStaysInItsSlot ==
  [][/\ \A j \in 1..Len(batchPromises) :
          slotFails(j) =>
            /\ detailPc' = "await"
            /\ Len(batchPromises') = Len(batchPromises)
            /\ \A k \in 1..Len(batchPromises) :
                 k # j => batchPromises'[k] = batchPromises[k]
     /\ (detailPc = "await" /\ detailPc' # "await") =>
          /\ detailPc' \in {"pause", "loop"}
          /\ \A j \in 1..Len(batchPromises) :
               /\ batchPromises[j].st = "settled"
               /\ batchPromises[j].result.for = batchStart + j
               /\ (batchPromises[j].result.description = "placeholder")
                    <=> (batchStart + j \in failedModules)]_vars

\* In one batch the first module has been replaced by the stub while the
\* second, after a failed first attempt of its own, has its detailed result.
C31_Witness ==
  /\ detailPc = "await"
  /\ Len(batchPromises) >= 2
  /\ batchPromises[1].st = "settled"
  /\ batchPromises[1].result.description = "placeholder"
  /\ batchPromises[2].st = "settled"
  /\ batchPromises[2].attempt = 1
  /\ batchPromises[2].result.description = "ai"
  /\ settleOrder[1] = 1

\* ------------------------------------------------------------------------
\* Standard input of the MCP server: process.stdin.on('data', ...) of
\* src/mcp-server.js.  The client writes request lines; the stream delivers
\* them in chunks whose borders need not be the line borders.
\* ------------------------------------------------------------------------

MaxLines == 2

Newline == [kind |-> "N", id |-> 0]

\* The text of request line k: in one piece, or as a head and a tail that
\* arrive in different chunks.
lineText(k, how) ==
  IF how = "whole"
  THEN <<[kind |-> "L", id |-> k], Newline>>
  ELSE <<[kind |-> "H", id |-> k], [kind |-> "T", id |-> k], Newline>>

RECURSIVE streamOf(_, _)
streamOf(hows, k) ==
  IF k > Len(hows) THEN <<>> ELSE lineText(k, hows[k]) \o streamOf(hows, k + 1)

RECURSIVE cutAt(_, _, _)
cutAt(stream, cuts, from) ==
  IF from > Len(stream) THEN <<>>
  ELSE LET next == MinOf({c \in cuts : c >= from} \cup {Len(stream)})
       IN <<SubSeq(stream, from, next)>> \o cutAt(stream, cuts, next + 1)

\* A chunk border lies inside every line that is sent in two parts.
splitsAreCut(stream, cuts) ==
  \A i \in 1..Len(stream) : stream[i].kind = "H" => i \in cuts

InputStreams ==
  UNION {
    {cutAt(streamOf(hows, 1), cuts, 1) :
       cuts \in {c \in SUBSET (1..(Len(streamOf(hows, 1)) - 1)) :
                   splitsAreCut(streamOf(hows, 1), c)}} :
    hows \in UNION {[1..n -> {"whole", "split"}] : n \in 1..MaxLines}}

RECURSIVE countLines(_)
countLines(chunks) ==
  IF chunks = <<>> THEN 0
  ELSE Cardinality({i \in 1..Len(Head(chunks)) : Head(chunks)[i].kind = "N"})
         + countLines(Tail(chunks))

\* JSON.parse skips white space around the text.
RECURSIVE trimNewlines(_)
trimNewlines(chunk) ==
  IF chunk = <<>> THEN <<>>
  ELSE IF chunk[1].kind = "N" THEN trimNewlines(Tail(chunk))
  ELSE IF chunk[Len(chunk)].kind = "N" THEN trimNewlines(SubSeq(chunk, 1, Len(chunk) - 1))
  ELSE chunk

\* JSON.parse(data.toString()) returns: the chunk holds one JSON text.
chunkParses(chunk) ==
  LET t == trimNewlines(chunk)
  IN \/ Len(t) = 1 /\ t[1].kind = "L"
     \/ Len(t) = 2 /\ t[1].kind = "H" /\ t[2].kind = "T" /\ t[1].id = t[2].id

InitStdin ==
  /\ credentials = {}
  /\ serverStart
  /\ errorIdle
  /\ detailIdle
  /\ selectIdle
  /\ callIdle
  /\ parseIdle
  /\ countIdle
  /\ analysisIdle
  /\ \E chunks \in InputStreams :
       inputStream = [NoInput EXCEPT !.chunks = chunks, !.lines = countLines(chunks)]

\* The 'data' listener runs on the next chunk: one JSON.parse of the whole
\* chunk, then the request (a tools/list here) is answered, or the catch.
onData ==
  /\ inputStream.alive
  /\ inputStream.chunks # <<>>
  /\ LET chunk == Head(inputStream.chunks)
     IN IF chunkParses(chunk)
        THEN inputStream' =
               [inputStream EXCEPT
                  !.chunks = Tail(@), !.requests = @ + 1,
                  !.out = Append(@, ResultLine(trimNewlines(chunk)[1].id))]
        ELSE \E a \in aliveAfterCatch :
               inputStream' =
                 [inputStream EXCEPT
                    !.chunks = Tail(@), !.alive = a,
                    !.out = @ \o topLevelCatch("SyntaxError", 0)]
  /\ UNCHANGED notStdin

NextStdin == onData

SpecStdin == InitStdin /\ [][NextStdin]_vars

\* C32: every input line is one request: however the lines are spread over
\* the chunks (several lines in one chunk, one line over two chunks), each
\* line is parsed as a request of its own and gets a response line of its own.
C32_EveryLineIsOneRequest ==
  (inputStream.lines > 0 /\ (inputStream.chunks = <<>> \/ ~inputStream.alive))
    => /\ inputStream.requests = inputStream.lines
       /\ inputStream.out = [k \in 1..inputStream.lines |-> ResultLine(k)]

(* ------------------------------------------- Termination of the two loops *)
MaxBatchSize == 2

\* The values of the BATCH_SIZE environment variable: not set (or not a
\* number), or an integer.
BatchSizeSettings ==
  {[set |-> FALSE, n |-> 0]} \cup [set : {TRUE}, n : -1..MaxBatchSize]

\* parseInt(process.env.BATCH_SIZE) || 3: NaN and 0 give the default.
loadBatchSize(setting) ==
  IF ~setting.set \/ setting.n = 0 THEN batchSize ELSE setting.n

\* The lists of up to MaxNames names; which names they are decides nothing
\* in the loop.
RepeatedName == {[k \in 1..n |-> "auth"] : n \in 0..MaxNames}

\* generateSpecification's loop starts, under any BATCH_SIZE setting.
InitConfigured ==
  /\ credentials \in CredentialSets
  /\ serverStart
  /\ errorIdle
  /\ CONFIG \in {[batchSize |-> loadBatchSize(e)] : e \in BatchSizeSettings}
  /\ selectedModules \in RepeatedName
  /\ batchStart = 0
  /\ batchPromises = <<>>
  /\ settleOrder = <<>>
  /\ specModules = <<>>
  /\ failedModules = {}
  /\ detailPc = "loop"
  /\ selectIdle
  /\ callIdle
  /\ parseIdle
  /\ countIdle
  /\ analysisIdle
  /\ stdinIdle

InitLive == InitCall \/ InitConfigured

NextLive == NextCall \/ NextDetail

\* Every provider call settles, every timer fires and the event loop runs
\* every continuation that is ready: a step that can be taken is taken.
SpecLive == InitLive /\ [][NextLive]_vars /\ WF_vars(NextLive)

\* Math.ceil(n / d) for n >= 0 and d # 0.
ceilDiv(n, d) == IF d > 0 THEN (n + d - 1) \div d ELSE -(n \div (-d))

\* C38: provided every provider call settles, callAI ends by returning a
\* text or throwing, whatever its retries, and generateSpecification's loop
\* ends for every list of names, after ceil(n / batchSize) batches: the loop
\* variable grows by batchSize once per batch.
C38_CallAIAndDetailerTerminate ==
  /\ (aiCall.pc = "start") ~> (aiCall.pc \in {"returned", "threw"})
  /\ (detailPc = "loop") ~> (detailPc = "done")
  /\ [](detailPc = "done"
          => batchStart = CONFIG.batchSize
                            * ceilDiv(Len(selectedModules), CONFIG.batchSize))

====
